---- MODULE Spec2Model ----
(***************************************************************************)
(* Bootstrap of the pyrefly language server (pyrefly/lib/commands/lsp.rs): *)
(* LspArgs::run creates the stdio transport, run_lsp drives the two-call   *)
(* initialize handshake (initialize_connection), starts the main loop      *)
(* (lsp_loop) and, once the loop has returned, run joins the transport's   *)
(* I/O threads.                                                            *)
(*                                                                         *)
(* An Option value is a sequence of length 0 (None) or 1 (Some).           *)
(***************************************************************************)
EXTENDS Naturals, Sequences, FiniteSets

\* ------------------------------------------------------------------ bounds

\* Number of distinct request identifiers a client may tag its initialize
\* request with.
NumRequestIds == 2

\* Number of distinct client capability declarations a client may send.
NumClients == 2

\* Largest number of disable_* flags set in a configuration of the
\* whole-lifecycle specification (the handshake specification takes all 2^13).
MaxDisabled == 1

\* A workspace indexing limit small enough for the indexing of a workspace to
\* reach it.
SmallLimit == 2

\* Number of files of the opened project that indexing can schedule.
NumFiles == 4

\* Number of requests, besides the opening of the project file and
\* initialize, that the client sends to the main loop.
MaxRequests == 2

\* --------------------------------------------------------- configuration

\* enum IndexingMode
IndexingMode == {"None", "LazyNonBlockingBackground", "LazyBlocking"}

\* The fields of struct DisabledLanguageServices, one per language service.
FeatureKind ==
    {"definition", "type_definition", "code_action", "completion",
     "document_highlight", "references", "rename", "signature_help", "hover",
     "inlay_hint", "document_symbol", "workspace_symbol", "semantic_tokens"}

\* The disable_* field of struct LspArgs that belongs to each language service.
FlagName ==
    [definition         |-> "disable_definition",
     type_definition    |-> "disable_type_definition",
     code_action        |-> "disable_code_action",
     completion         |-> "disable_completion",
     document_highlight |-> "disable_document_highlight",
     references         |-> "disable_references",
     rename             |-> "disable_rename",
     signature_help     |-> "disable_signature_help",
     hover              |-> "disable_hover",
     inlay_hint         |-> "disable_inlay_hint",
     document_symbol    |-> "disable_document_symbol",
     workspace_symbol   |-> "disable_workspace_symbol",
     semantic_tokens    |-> "disable_semantic_tokens"]

\* default_value_t of workspace_indexing_limit: cfg!(fbcode_build) and otherwise.
FbcodeIndexingLimit == 0
DefaultIndexingLimit == 2000

WorkspaceIndexingLimits == {FbcodeIndexingLimit, DefaultIndexingLimit}

\* struct LspArgs with mode m, limit l and exactly the flags of D set.
LspArgs(m, l, D) ==
    [indexing_mode              |-> m,
     workspace_indexing_limit   |-> l,
     disable_definition         |-> "definition" \in D,
     disable_type_definition    |-> "type_definition" \in D,
     disable_code_action        |-> "code_action" \in D,
     disable_completion         |-> "completion" \in D,
     disable_document_highlight |-> "document_highlight" \in D,
     disable_references         |-> "references" \in D,
     disable_rename             |-> "rename" \in D,
     disable_signature_help     |-> "signature_help" \in D,
     disable_hover              |-> "hover" \in D,
     disable_inlay_hint         |-> "inlay_hint" \in D,
     disable_document_symbol    |-> "document_symbol" \in D,
     disable_workspace_symbol   |-> "workspace_symbol" \in D,
     disable_semantic_tokens    |-> "semantic_tokens" \in D]

\* The default falling on the first variant of the enum.
IndexingMode_first == "None"

\* #[default] of enum IndexingMode, which default_value_t of indexing_mode takes.
IndexingMode_default == "LazyNonBlockingBackground"

\* A default that ignores the build profile.
workspace_indexing_limit_default_fixed(fbcode_build) == DefaultIndexingLimit

\* default_value_t of workspace_indexing_limit.
workspace_indexing_limit_default(fbcode_build) ==
    IF fbcode_build THEN FbcodeIndexingLimit ELSE DefaultIndexingLimit

\* #[derive(Parser)] of LspArgs: the LspArgs that clap builds from a command
\* line cli, which holds --indexing-mode and --workspace-indexing-limit as
\* Options, the set of --disable-* flags that are present, and the build
\* profile (cfg!(fbcode_build)) of the binary that parses it.
LspArgs_parse(cli) ==
    LspArgs(IF cli.indexing_mode = <<>> THEN IndexingMode_default
                                        ELSE Head(cli.indexing_mode),
            IF cli.workspace_indexing_limit = <<>>
            THEN workspace_indexing_limit_default(cli.fbcode_build)
            ELSE Head(cli.workspace_indexing_limit),
            cli.disabled)

\* An Option over the set S.
Option(S) == {<<>>} \cup {<<x>> : x \in S}

\* Version strings a caller may hand to LspArgs::run.
VersionStrings == {"9.9.9", "0.1.0"}

\* ------------------------------------------------------------- transport

RequestIds == 1..NumRequestIds

\* Raw "params" payloads of an initialize request: a JSON object that declares
\* client capabilities c (capabilities = c), or one that lacks the required
\* member (capabilities = 0) and does not deserialize.
RawParams == [json: {"object"}, capabilities: 0..NumClients]

\* The initialize request as it arrives on the transport.
InitializeRequest == [id: RequestIds, params: RawParams]

\* What the client puts on the transport before the server reads: one
\* initialize request, or nothing (the channel is disconnected).
ClientScripts == {<<>>} \cup {<<r>> : r \in InitializeRequest}

\* ---------------------------------------------------------- pure functions

\* disabled_services with one field initialised from its neighbour's flag.
disabled_services_slip(self) ==
    [definition         |-> self.disable_definition,
     type_definition    |-> self.disable_type_definition,
     code_action        |-> self.disable_code_action,
     completion         |-> self.disable_completion,
     document_highlight |-> self.disable_document_highlight,
     references         |-> self.disable_references,
     rename             |-> self.disable_references,
     signature_help     |-> self.disable_signature_help,
     hover              |-> self.disable_hover,
     inlay_hint         |-> self.disable_inlay_hint,
     document_symbol    |-> self.disable_document_symbol,
     workspace_symbol   |-> self.disable_workspace_symbol,
     semantic_tokens    |-> self.disable_semantic_tokens]

\* LspArgs::disabled_services
disabled_services(self) ==
    [definition         |-> self.disable_definition,
     type_definition    |-> self.disable_type_definition,
     code_action        |-> self.disable_code_action,
     completion         |-> self.disable_completion,
     document_highlight |-> self.disable_document_highlight,
     references         |-> self.disable_references,
     rename             |-> self.disable_rename,
     signature_help     |-> self.disable_signature_help,
     hover              |-> self.disable_hover,
     inlay_hint         |-> self.disable_inlay_hint,
     document_symbol    |-> self.disable_document_symbol,
     workspace_symbol   |-> self.disable_workspace_symbol,
     semantic_tokens    |-> self.disable_semantic_tokens]

\* from_value followed by unwrap_or_default instead of unwrap: a payload that
\* does not deserialize yields default parameters.
from_value_or_default(raw) ==
    IF raw.json = "object" /\ raw.capabilities # 0
    THEN <<[capabilities |-> raw.capabilities]>>
    ELSE <<[capabilities |-> 1]>>

\* serde_json::from_value::<InitializeParams>: Some(InitializeParams) when the
\* payload deserializes, None (the Err the code unwraps) when it does not.
from_value(raw) ==
    IF raw.json = "object" /\ raw.capabilities # 0
    THEN <<[capabilities |-> raw.capabilities]>>
    ELSE <<>>

\* The language services whose advertisement needs a built index.
IndexDependent == {"references", "rename", "workspace_symbol"}

\* crate::lsp::non_wasm::server::capabilities: the capability document, here the
\* set of advertised services as a map FeatureKind -> BOOLEAN.
capabilities(indexing_mode, initialization_params, disabled) ==
    [f \in FeatureKind |->
        /\ ~disabled[f]
        /\ (f \in IndexDependent => indexing_mode # "None")]

\* The call of capabilities with DisabledLanguageServices::default() instead of
\* args.disabled_services().
capabilities_args_default_services(args, initialization_params) ==
    [indexing_mode         |-> args.indexing_mode,
     initialization_params |-> initialization_params,
     disabled_services     |-> [f \in FeatureKind |-> FALSE]]

\* The call of capabilities with IndexingMode::default() instead of
\* args.indexing_mode.
capabilities_args_default_mode(args, initialization_params) ==
    [indexing_mode         |-> "LazyNonBlockingBackground",
     initialization_params |-> initialization_params,
     disabled_services     |-> [f \in FeatureKind |->
                                   args[FlagName[f]]]]

\* The call of capabilities in initialize_connection: the arguments it passes.
capabilities_args(args, initialization_params) ==
    [indexing_mode         |-> args.indexing_mode,
     initialization_params |-> initialization_params,
     disabled_services     |-> disabled_services(args)]

\* let server_capabilities = serde_json::to_value(capabilities(..)).unwrap()
server_capabilities(call) ==
    capabilities(call.indexing_mode, call.initialization_params,
                 call.disabled_services)

\* initialize_data with the two members of serverInfo exchanged.
initialize_data_json_swapped(caps, version) ==
    [capabilities |-> caps,
     serverInfo   |-> [name |-> version, version |-> "pyrefly-lsp"]]

\* let initialize_data = serde_json::json!({..})
initialize_data_json(caps, version) ==
    [capabilities |-> caps,
     serverInfo   |-> [name |-> "pyrefly-lsp", version |-> version]]

\* The response tagged with a fixed identifier instead of the request's.
initialize_response_fixed_id(id, data) == [id |-> 1, result |-> data]

\* The response connection.initialize_finish(request_id, initialize_data) sends.
initialize_response(id, data) == [id |-> id, result |-> data]

\* The call of lsp_loop with DisabledLanguageServices::default() instead of
\* args.disabled_services().
lsp_loop_args_default_services(args, initialization_params) ==
    [initialization_params    |-> initialization_params,
     indexing_mode            |-> args.indexing_mode,
     workspace_indexing_limit |-> args.workspace_indexing_limit,
     disabled_services        |-> [f \in FeatureKind |-> FALSE]]

\* The call of lsp_loop passing the default indexing limit, not the configured
\* one.
lsp_loop_args_default_limit(args, initialization_params) ==
    [initialization_params    |-> initialization_params,
     indexing_mode            |-> args.indexing_mode,
     workspace_indexing_limit |-> workspace_indexing_limit_default(FALSE),
     disabled_services        |-> disabled_services(args)]

\* The call of lsp_loop passing the default indexing mode, not the configured
\* one.
lsp_loop_args_default_mode(args, initialization_params) ==
    [initialization_params    |-> initialization_params,
     indexing_mode            |-> IndexingMode_default,
     workspace_indexing_limit |-> args.workspace_indexing_limit,
     disabled_services        |-> disabled_services(args)]

\* The call of lsp_loop in run_lsp: the arguments it passes.
lsp_loop_args(args, initialization_params) ==
    [initialization_params    |-> initialization_params,
     indexing_mode            |-> args.indexing_mode,
     workspace_indexing_limit |-> args.workspace_indexing_limit,
     disabled_services        |-> disabled_services(args)]

\* run_lsp's match with the Err arm going on to the main loop.
run_lsp_match_swallow(init_result) ==
    IF init_result \in {"Ok", "Err"} THEN "lsp_loop" ELSE "run_lsp_err"

\* run_lsp's match with the Err arm calling initialize_connection again.
run_lsp_match_retry(init_result) ==
    IF init_result = "Ok" THEN "lsp_loop" ELSE "initialize_start"

\* run_lsp's match with the Ok arm calling initialize_connection again.
run_lsp_match_again(init_result) ==
    IF init_result = "Ok" THEN "initialize_start" ELSE "run_lsp_err"

\* run_lsp's match on the result of initialize_connection: where it goes next.
run_lsp_match(init_result) ==
    IF init_result = "Ok" THEN "lsp_loop" ELSE "run_lsp_err"

\* run_lsp's `lsp_loop(..)?; Ok(())`: the value run_lsp returns.
run_lsp_return(loop_result) ==
    IF loop_result = "Ok" THEN "Ok" ELSE "Err"

\* run returning right after run_lsp, without the join.
run_try_run_lsp_no_join(result) == "returned"

\* run going on to the join whatever run_lsp returned.
run_try_run_lsp_always_join(result) == "join"

\* run's `run_lsp(..)?`: where run goes once run_lsp has returned.
run_try_run_lsp(result) ==
    IF result = "Ok" THEN "join" ELSE "returned"

\* run dropping the result of the join.
run_try_join_ignored(join_result) == "Success"

\* io_threads.join() with a timeout after which it returns anyway.
join_returns_on_timeout(exited) == TRUE

\* run's `io_threads.join()`: a blocking join, which returns once the I/O
\* threads have terminated and not before.
join_returns(exited) == exited

\* run's `io_threads.join()?; .. Ok(CommandExitStatus::Success)`: what run returns.
run_try_join(join_result) ==
    IF join_result = "Ok" THEN "Success" ELSE "Err"

\* ------------------------------------------------------------------ state

VARIABLES
    cli,                    \* the command line and the build profile
    args,                   \* self: LspArgs, as parsed from the command line
    version_string,         \* the version string handed to run
    receiver,               \* connection: messages from the client, not yet read
    received,               \* connection: messages initialize_start has read
    sender,                 \* connection: messages sent to the client, in order
    io_threads,             \* "none", "running" or "joined"
    io_exited,              \* whether the transport's I/O threads have terminated
    pc,                     \* where the thread that called run is
    request_id,             \* initialize_connection: Option<RequestId>
    raw_params,             \* initialize_connection: Option<serde_json::Value>
    initialization_params,  \* initialize_connection: Option<InitializeParams>
    capabilities_call,      \* Option: the arguments capabilities was called with
    initialize_data,        \* initialize_connection: Option<serde_json::Value>
    init_result,            \* "none", or what initialize_connection returned
    lsp_loop_call,          \* Option: the arguments lsp_loop was called with
    lsp_loop_result,        \* "none", or what lsp_loop returned
    run_lsp_result,         \* "none", or what run_lsp returned
    join_result,            \* "none", or what io_threads.join() returned
    run_result,             \* "none", or what run returned: "Success" or "Err"
    trace,                  \* the calls made and their outcomes, in order
    opened,                 \* main loop: a file of a configured project was opened
    worker,                 \* background indexing worker: "none", "running", "done"
    batch,                  \* indexing on the main loop: "none", "running", "done"
    scheduled,              \* number of files scheduled for indexing
    indexed,                \* number of scheduled files whose indexing completed
    handled,                \* main loop: number of other requests processed
    rejected                \* main loop: ids of the initialize requests it rejected

vars ==
    <<cli, args, version_string, receiver, received, sender, io_threads,
      io_exited, pc,
      request_id, raw_params, initialization_params, capabilities_call, initialize_data,
      init_result, lsp_loop_call, lsp_loop_result, run_lsp_result, join_result,
      run_result, trace, opened, worker, batch, scheduled, indexed, handled,
      rejected>>

config_vars == <<cli, args, version_string>>
wire_in == <<receiver, received>>
handshake_locals ==
    <<request_id, raw_params, initialization_params, capabilities_call,
      initialize_data>>
indexing_vars == <<opened, worker, batch, scheduled, indexed>>
loop_vars == <<indexing_vars, handled, rejected>>
lifecycle_vars ==
    <<lsp_loop_call, lsp_loop_result, run_lsp_result, join_result, run_result>>

\* The command lines of the whole-lifecycle specification.
RunCommandLines ==
    [fbcode_build             : BOOLEAN,
     indexing_mode            : Option(IndexingMode),
     workspace_indexing_limit : Option({SmallLimit}),
     disabled : {X \in SUBSET FeatureKind : Cardinality(X) <= MaxDisabled}]

\* Every combination of the thirteen flags with every indexing mode and build
\* profile, without --workspace-indexing-limit.
AllToggleCommandLines ==
    [fbcode_build             : BOOLEAN,
     indexing_mode            : {<<m>> : m \in IndexingMode},
     workspace_indexing_limit : {<<>>},
     disabled                 : SUBSET FeatureKind]

\* The command lines of the main-loop specification: no --disable-* flag.
LoopCommandLines ==
    [fbcode_build             : BOOLEAN,
     indexing_mode            : Option(IndexingMode),
     workspace_indexing_limit : Option({SmallLimit}),
     disabled                 : {{}}]

\* Client behaviours of the main-loop specification: those of the handshake
\* specification, and a well-formed initialize request followed by a second
\* initialize request.
LoopScripts ==
    LET req(i, c) ==
           [id |-> i, params |-> [json |-> "object", capabilities |-> c]]
    IN {<<>>, <<req(1, 0)>>, <<req(1, 1)>>, <<req(1, 1), req(2, 1)>>}

\* Client behaviours of the handshake specification: a disconnected channel, a
\* request whose params do not deserialize, a well-formed request.
HandshakeScripts ==
    {<<>>} \cup
    {<<[id |-> 1, params |-> [json |-> "object", capabilities |-> c]]>> :
        c \in {0, 1}}

\* No call made yet.
Fresh ==
    /\ io_exited = FALSE
    /\ received = <<>>
    /\ sender = <<>>
    /\ request_id = <<>>
    /\ raw_params = <<>>
    /\ initialization_params = <<>>
    /\ capabilities_call = <<>>
    /\ initialize_data = <<>>
    /\ init_result = "none"
    /\ lsp_loop_call = <<>>
    /\ lsp_loop_result = "none"
    /\ run_lsp_result = "none"
    /\ join_result = "none"
    /\ run_result = "none"
    /\ trace = <<>>
    /\ opened = FALSE
    /\ worker = "none"
    /\ batch = "none"
    /\ scheduled = 0
    /\ indexed = 0
    /\ handled = 0
    /\ rejected = <<>>

\* LspArgs::run is about to be called.
Init ==
    /\ cli \in RunCommandLines
    /\ args = LspArgs_parse(cli)
    /\ version_string \in VersionStrings
    /\ receiver \in ClientScripts
    /\ io_threads = "none"
    /\ pc = "run"
    /\ Fresh

\* LspArgs::run is about to be called by a client that may go on with the main
\* loop.
InitLoop ==
    /\ cli \in LoopCommandLines
    /\ args = LspArgs_parse(cli)
    /\ version_string = "9.9.9"
    /\ receiver \in LoopScripts
    /\ io_threads = "none"
    /\ pc = "run"
    /\ Fresh

\* initialize_connection is about to be called on an open connection.
InitHandshake ==
    /\ cli \in AllToggleCommandLines
    /\ args = LspArgs_parse(cli)
    /\ version_string = "9.9.9"
    /\ receiver \in HandshakeScripts
    /\ io_threads = "running"
    /\ pc = "initialize_start"
    /\ Fresh

\* ---------------------------------------------------------------- actions

\* run: Connection::stdio() and the call of run_lsp, which calls
\* initialize_connection.
Run ==
    /\ pc = "run"
    /\ io_threads' = "running"
    /\ pc' = "initialize_start"
    /\ trace' = Append(trace, "stdio")
    /\ UNCHANGED <<config_vars, io_exited, loop_vars, wire_in, sender, handshake_locals, init_result,
                   lifecycle_vars>>

\* connection.initialize_start()? returns the initialize request's id and params.
InitializeStartOk ==
    /\ pc = "initialize_start"
    /\ receiver # <<>>
    /\ request_id' = <<Head(receiver).id>>
    /\ raw_params' = <<Head(receiver).params>>
    /\ receiver' = Tail(receiver)
    /\ received' = Append(received, Head(receiver))
    /\ pc' = "from_value"
    /\ trace' = Append(trace, "initialize_start_ok")
    /\ UNCHANGED <<config_vars, io_exited, loop_vars, sender, io_threads, initialization_params,
                   capabilities_call, initialize_data, init_result,
                   lifecycle_vars>>

\* connection.initialize_start()? fails: initialize_connection returns the
\* ProtocolError.
InitializeStartErr ==
    /\ pc = "initialize_start"
    /\ receiver = <<>>
    /\ init_result' = "Err"
    /\ pc' = "run_lsp_match"
    /\ trace' = Append(trace, "initialize_start_err")
    /\ UNCHANGED <<config_vars, io_exited, loop_vars, wire_in, sender, io_threads, handshake_locals,
                   lifecycle_vars>>

\* serde_json::from_value(initialization_params).unwrap() on a payload that
\* deserializes.
FromValueOk ==
    /\ pc = "from_value"
    /\ from_value(Head(raw_params)) # <<>>
    /\ initialization_params' = from_value(Head(raw_params))
    /\ pc' = "capabilities"
    /\ trace' = Append(trace, "from_value_ok")
    /\ UNCHANGED <<config_vars, io_exited, loop_vars, wire_in, sender, io_threads, request_id,
                   raw_params, capabilities_call, initialize_data, init_result,
                   lifecycle_vars>>

\* serde_json::from_value(initialization_params).unwrap() on a payload that does
\* not deserialize: unwrap panics and the thread unwinds out of run.
FromValuePanic ==
    /\ pc = "from_value"
    /\ from_value(Head(raw_params)) = <<>>
    /\ pc' = "panicked"
    /\ trace' = Append(trace, "from_value_panic")
    /\ UNCHANGED <<config_vars, io_exited, loop_vars, wire_in, sender, io_threads, handshake_locals,
                   init_result, lifecycle_vars>>

\* The capability document and the initialize-result payload are built.
BuildInitializeData ==
    /\ pc = "capabilities"
    /\ LET call == capabilities_args(args, Head(initialization_params))
       IN /\ capabilities_call' = <<call>>
          /\ initialize_data' =
                <<initialize_data_json(server_capabilities(call), version_string)>>
    /\ pc' = "initialize_finish"
    /\ trace' = Append(trace, "capabilities")
    /\ UNCHANGED <<config_vars, io_exited, loop_vars, wire_in, sender, io_threads, request_id,
                   raw_params, initialization_params, init_result,
                   lifecycle_vars>>

\* connection.initialize_finish(request_id, initialize_data)? succeeds: the
\* response is on the transport, initialize_connection returns Ok.
InitializeFinishOk ==
    /\ pc = "initialize_finish"
    /\ sender' = Append(sender, initialize_response(Head(request_id),
                                                    Head(initialize_data)))
    /\ init_result' = "Ok"
    /\ pc' = "run_lsp_match"
    /\ trace' = Append(trace, "initialize_finish_ok")
    /\ UNCHANGED <<config_vars, io_exited, loop_vars, wire_in, io_threads, handshake_locals,
                   lifecycle_vars>>

\* connection.initialize_finish(request_id, initialize_data)? fails with a
\* ProtocolError; the response may or may not have left before the failure.
InitializeFinishErr ==
    /\ pc = "initialize_finish"
    /\ \E delivered \in BOOLEAN :
          sender' = IF delivered
                    THEN Append(sender, initialize_response(Head(request_id),
                                                            Head(initialize_data)))
                    ELSE sender
    /\ init_result' = "Err"
    /\ pc' = "run_lsp_match"
    /\ trace' = Append(trace, "initialize_finish_err")
    /\ UNCHANGED <<config_vars, io_exited, loop_vars, wire_in, io_threads, handshake_locals,
                   lifecycle_vars>>

\* run_lsp: match initialize_connection(..) { Ok(it) => it, Err(e) => return .. }
RunLspMatch ==
    /\ pc = "run_lsp_match"
    /\ pc' = run_lsp_match(init_result)
    /\ UNCHANGED <<config_vars, io_exited, loop_vars, wire_in, sender, io_threads, handshake_locals,
                   init_result, lifecycle_vars, trace>>

\* run_lsp: return Err(e.into())
RunLspErr ==
    /\ pc = "run_lsp_err"
    /\ run_lsp_result' = "Err"
    /\ pc' = "run_try"
    /\ UNCHANGED <<config_vars, io_exited, loop_vars, wire_in, sender, io_threads, handshake_locals,
                   init_result, lsp_loop_call, lsp_loop_result, join_result,
                   run_result, trace>>

\* run_lsp: the main loop is started.
LspLoopCall ==
    /\ pc = "lsp_loop"
    /\ lsp_loop_call' = <<lsp_loop_args(args, Head(initialization_params))>>
    /\ pc' = "in_lsp_loop"
    /\ trace' = Append(trace, "lsp_loop")
    /\ UNCHANGED <<config_vars, io_exited, loop_vars, wire_in, sender, io_threads, handshake_locals,
                   init_result, lsp_loop_result, run_lsp_result, join_result,
                   run_result>>

\* The main loop terminates, with or without an error, and run_lsp returns.
LspLoopReturn ==
    /\ pc = "in_lsp_loop"
    /\ batch # "running"
    /\ \E res \in {"Ok", "Err"} :
          /\ lsp_loop_result' = res
          /\ run_lsp_result' = run_lsp_return(res)
          /\ trace' = Append(trace, IF res = "Ok" THEN "lsp_loop_ok"
                                                  ELSE "lsp_loop_err")
    /\ pc' = "run_try"
    /\ UNCHANGED <<config_vars, io_exited, loop_vars, wire_in, sender, io_threads, handshake_locals,
                   init_result, lsp_loop_call, join_result, run_result>>

\* lsp_loop: the indexing mode and the indexing limit it was called with.
loop_mode == Head(lsp_loop_call).indexing_mode
loop_limit == Head(lsp_loop_call).workspace_indexing_limit

\* The main loop's execution context is free to process a request.
LoopIdle == pc = "in_lsp_loop" /\ batch # "running"

\* Indexing is running, on the worker or on the main loop's execution context.
IndexingActive ==
    \/ worker = "running"
    \/ pc = "in_lsp_loop" /\ batch = "running"

\* lsp_loop: the first file recognized as belonging to a configured project is
\* opened, which triggers indexing as the indexing mode says.
OpenProjectFile ==
    /\ LoopIdle
    /\ ~opened
    /\ opened' = TRUE
    /\ worker' = IF loop_mode = "LazyNonBlockingBackground" THEN "running"
                                                            ELSE worker
    /\ batch' = IF loop_mode = "LazyBlocking" THEN "running" ELSE batch
    /\ UNCHANGED <<config_vars, io_exited, wire_in, sender, io_threads, pc,
                   handshake_locals, init_result, lifecycle_vars, trace,
                   scheduled, indexed, handled, rejected>>

\* lsp_loop: any other request or notification is processed.
HandleRequest ==
    /\ LoopIdle
    /\ handled < MaxRequests
    /\ handled' = handled + 1
    /\ UNCHANGED <<config_vars, io_exited, wire_in, sender, io_threads, pc,
                   handshake_locals, init_result, lifecycle_vars, trace,
                   indexing_vars, rejected>>

\* lsp_loop: an initialize request that arrives after the handshake is
\* rejected as a protocol violation; no initialize-result is sent for it.
RejectInitialize ==
    /\ LoopIdle
    /\ receiver # <<>>
    /\ receiver' = Tail(receiver)
    /\ rejected' = Append(rejected, Head(receiver).id)
    /\ UNCHANGED <<config_vars, io_exited, received, sender, io_threads, pc,
                   handshake_locals, init_result, lifecycle_vars, trace,
                   indexing_vars, handled>>

\* Indexing schedules one more file of the project, unless the number of
\* files scheduled has reached the workspace indexing limit.
ScheduleFile ==
    /\ IndexingActive
    /\ scheduled < NumFiles
    /\ scheduled < loop_limit
    /\ scheduled' = scheduled + 1
    /\ UNCHANGED <<config_vars, io_exited, wire_in, sender, io_threads, pc,
                   handshake_locals, init_result, lifecycle_vars, trace,
                   opened, worker, batch, indexed, handled, rejected>>

\* The indexing of a scheduled file completes.
IndexFile ==
    /\ IndexingActive
    /\ indexed < scheduled
    /\ indexed' = indexed + 1
    /\ UNCHANGED <<config_vars, io_exited, wire_in, sender, io_threads, pc,
                   handshake_locals, init_result, lifecycle_vars, trace,
                   opened, worker, batch, scheduled, handled, rejected>>

\* Indexing is over: every scheduled file is indexed and no further file can
\* be scheduled.
FinishIndexing ==
    /\ IndexingActive
    /\ indexed = scheduled
    /\ scheduled = NumFiles \/ scheduled >= loop_limit
    /\ worker' = IF worker = "running" THEN "done" ELSE worker
    /\ batch' = IF batch = "running" THEN "done" ELSE batch
    /\ UNCHANGED <<config_vars, io_exited, wire_in, sender, io_threads, pc,
                   handshake_locals, init_result, lifecycle_vars, trace,
                   opened, scheduled, indexed, handled, rejected>>

\* run: run_lsp(..)? either goes on to the join or returns the error.
RunTry ==
    /\ pc = "run_try"
    /\ pc' = run_try_run_lsp(run_lsp_result)
    /\ run_result' = IF pc' = "returned" THEN "Err" ELSE run_result
    /\ trace' = IF pc' = "returned" THEN Append(trace, "return") ELSE trace
    /\ UNCHANGED <<config_vars, io_exited, loop_vars, wire_in, sender, io_threads, handshake_locals,
                   init_result, lsp_loop_call, lsp_loop_result, run_lsp_result,
                   join_result>>

\* The transport's I/O threads terminate (the client closed the streams, or a
\* thread failed); nothing makes them.
IoThreadsExit ==
    /\ io_threads = "running"
    /\ ~io_exited
    /\ io_exited' = TRUE
    /\ UNCHANGED <<config_vars, wire_in, sender, io_threads, pc, loop_vars,
                   handshake_locals, init_result, lifecycle_vars, trace>>

\* run: io_threads.join()? returns, and run returns.
Join ==
    /\ pc = "join"
    /\ join_returns(io_exited)
    /\ \E res \in {"Ok", "Err"} :
          /\ join_result' = res
          /\ run_result' = run_try_join(res)
          /\ trace' = trace \o <<IF res = "Ok" THEN "join_ok" ELSE "join_err",
                                 "return">>
    /\ io_threads' = "joined"
    /\ pc' = "returned"
    /\ UNCHANGED <<config_vars, io_exited, loop_vars, wire_in, sender, handshake_locals, init_result,
                   lsp_loop_call, lsp_loop_result, run_lsp_result>>

\* initialize_connection
NextHandshake ==
    \/ InitializeStartOk
    \/ InitializeStartErr
    \/ FromValueOk
    \/ FromValuePanic
    \/ BuildInitializeData
    \/ InitializeFinishOk
    \/ InitializeFinishErr

\* LspArgs::run
Next ==
    \/ Run
    \/ NextHandshake
    \/ RunLspMatch
    \/ RunLspErr
    \/ LspLoopCall
    \/ LspLoopReturn
    \/ RunTry
    \/ IoThreadsExit
    \/ Join

Spec == Init /\ [][Next]_vars

\* lsp_loop: the requests it processes and the indexing it triggers.
NextInLoop ==
    \/ OpenProjectFile
    \/ HandleRequest
    \/ RejectInitialize
    \/ ScheduleFile
    \/ IndexFile
    \/ FinishIndexing

\* LspArgs::run with the main loop's own steps.
NextLoop == Next \/ NextInLoop

\* Indexing that has scheduled a file goes on until the file is indexed.
SpecLoop == InitLoop /\ [][NextLoop]_vars /\ WF_vars(IndexFile)

\* The thread that called run is scheduled: once the join can return, it does.
SpecFair == Spec /\ WF_vars(RunTry) /\ WF_vars(Join)

SpecHandshake == InitHandshake /\ [][NextHandshake]_vars

\* ----------------------------------------------------------------- claims

\* Event e is in the trace.
Occurs(e) == \E i \in DOMAIN trace : trace[i] = e

\* The number of trace entries that are in the set E.
Count(E) == Cardinality({i \in DOMAIN trace : trace[i] \in E})

StartEvents == {"initialize_start_ok", "initialize_start_err"}
FinishEvents == {"initialize_finish_ok", "initialize_finish_err"}
HandshakeFailures ==
    {"initialize_start_err", "from_value_panic", "initialize_finish_err"}

\* C1: the main loop is started only after the initialize request was received
\* and the initialize-result was sent successfully, in that order; once the
\* receive, the parameter parse or the send has failed, the loop is not started.
C1_LoopOnlyAfterHandshake ==
    /\ \A i \in DOMAIN trace :
          trace[i] = "lsp_loop" =>
             /\ \E j, k \in 1..(i - 1) :
                   /\ j < k
                   /\ trace[j] = "initialize_start_ok"
                   /\ trace[k] = "initialize_finish_ok"
             /\ sender # <<>>
    /\ (\E e \in HandshakeFailures : Occurs(e)) =>
          /\ ~Occurs("lsp_loop")
          /\ lsp_loop_call = <<>>
          /\ pc \notin {"lsp_loop", "in_lsp_loop"}

\* The main loop is running after a completed handshake.
C1_Witness ==
    /\ pc = "in_lsp_loop"
    /\ lsp_loop_call # <<>>
    /\ Occurs("initialize_finish_ok")

\* C2: every initialize-result on the transport was sent after the initialize
\* request was read, and carries the identifier of that request.
C2_ResultTaggedWithRequestId ==
    \A i \in DOMAIN sender :
       /\ Len(received) = 1
       /\ request_id = <<received[1].id>>
       /\ sender[i].id = received[1].id
       /\ \A k \in DOMAIN trace :
             trace[k] \in FinishEvents =>
                \E j \in 1..(k - 1) : trace[j] = "initialize_start_ok"

\* An initialize-result was sent in answer to a request with the largest id.
C2_Witness ==
    /\ sender # <<>>
    /\ received # <<>>
    /\ received[1].id = NumRequestIds

\* C3: on one connection at most one receive of the initialize request and at
\* most one send of the initialize-result are attempted, at most one result
\* reaches the transport, and nothing of the handshake follows a failure.
C3_HandshakeAtMostOnce ==
    /\ Count(StartEvents) <= 1
    /\ Count(FinishEvents) <= 1
    /\ Len(received) <= 1
    /\ Len(sender) <= 1
    /\ \A i, j \in DOMAIN trace :
          (i < j /\ trace[i] \in HandshakeFailures) =>
             trace[j] \notin (StartEvents \cup FinishEvents
                              \cup {"from_value_ok", "capabilities"})

\* run has returned after the send of the initialize-result failed.
C3_Witness ==
    /\ pc = "returned"
    /\ Occurs("initialize_finish_err")
    /\ Count(FinishEvents) = 1

\* C4 (as stated): whenever the main loop has terminated and run has returned,
\* the I/O threads were joined.
C4_JoinAfterAnyLoopTermination ==
    (pc = "returned" /\ lsp_loop_result # "none") => io_threads = "joined"

\* C4 (amended): when the main loop has terminated without error and run has
\* returned, the join on the I/O threads was performed after the loop's return
\* and before run's; when the loop returned an error, run returned that error
\* without joining.
C4_JoinAfterCleanLoopTermination ==
    /\ (pc = "returned" /\ lsp_loop_result = "Ok") =>
          /\ io_threads = "joined"
          /\ join_result # "none"
          /\ \E i, j, k \in DOMAIN trace :
                /\ i < j /\ j < k
                /\ trace[i] = "lsp_loop_ok"
                /\ trace[j] \in {"join_ok", "join_err"}
                /\ trace[k] = "return"
    /\ (pc = "returned" /\ lsp_loop_result = "Err") =>
          /\ io_threads = "running"
          /\ join_result = "none"
          /\ run_result = "Err"

\* run has returned after a main loop that ended without error.
C4_Witness ==
    /\ pc = "returned"
    /\ lsp_loop_result = "Ok"
    /\ io_threads = "joined"

\* The thread that called run has left it: run returned or a panic unwound it.
Terminated == pc \in {"returned", "panicked"}

\* The handshake, the main loop and the join all ended without error.
AllOk == init_result = "Ok" /\ lsp_loop_result = "Ok" /\ join_result = "Ok"

\* The handshake, the main loop and the join each ran at most once, in order.
RunsOnceInOrder ==
    /\ Count(StartEvents) <= 1
    /\ Count({"lsp_loop"}) <= 1
    /\ Count({"join_ok", "join_err"}) <= 1
    /\ \A i, j \in DOMAIN trace :
          \/ i >= j
          \/ ~(trace[i] \in {"join_ok", "join_err"} /\ trace[j] # "return")
    /\ \A i, j \in DOMAIN trace :
          (trace[i] = "lsp_loop" /\ trace[j] \in StartEvents \cup FinishEvents)
             => j < i
    /\ \A i \in DOMAIN trace :
          trace[i] \in {"join_ok", "join_err"} =>
             \E j \in 1..(i - 1) : trace[j] = "lsp_loop_ok"

\* C5 (as stated): run returns the success status iff handshake, main loop and
\* join succeeded; every fatal handshake error (receive, parse, send), main-loop
\* error and join error makes run return an error value; nothing is restarted.
C5_SuccessIffAllOkElseErrValue ==
    /\ (run_result = "Success") <=> (pc = "returned" /\ AllOk)
    /\ (Terminated /\ ~AllOk) => (pc = "returned" /\ run_result = "Err")
    /\ RunsOnceInOrder

\* C5 (amended): run returns the success status iff handshake, main loop and
\* join succeeded, in that order; a receive or send failure of the handshake, a
\* main-loop error and a join error each make run return an error value; a
\* parameter parse failure makes run panic, so that it returns no value at all;
\* nothing is restarted.
C5_SuccessIffAllOkElseErrOrPanic ==
    /\ (run_result = "Success") <=> (pc = "returned" /\ AllOk)
    /\ pc = "returned" => run_result \in {"Success", "Err"}
    /\ (pc = "returned" /\ ~AllOk) =>
          /\ run_result = "Err"
          /\ \/ init_result = "Err"
             \/ lsp_loop_result = "Err"
             \/ join_result = "Err"
    /\ (Terminated /\ Occurs("initialize_start_err")) => pc = "returned"
    /\ (Terminated /\ Occurs("initialize_finish_err")) => pc = "returned"
    /\ (Terminated /\ Occurs("lsp_loop_err")) => pc = "returned"
    /\ (Terminated /\ Occurs("join_err")) => pc = "returned"
    /\ pc = "panicked" <=> Occurs("from_value_panic")
    /\ pc = "panicked" => run_result = "none"
    /\ RunsOnceInOrder

\* run has returned an error after the handshake and the main loop succeeded
\* and the join failed.
C5_Witness ==
    /\ pc = "returned"
    /\ run_result = "Err"
    /\ init_result = "Ok"
    /\ lsp_loop_result = "Ok"
    /\ join_result = "Err"

\* The payload lacks what InitializeParams requires.
DoesNotParse(raw) == raw.json # "object" \/ raw.capabilities = 0

\* C6: once the params of the received initialize request have failed to parse,
\* the handshake is over: no parameters (default or other) exist, no capability
\* document was built, nothing was sent, and the main loop is not started.
C6_ParseFailureAborts ==
    (raw_params # <<>> /\ DoesNotParse(Head(raw_params))) =>
       /\ pc \in {"from_value", "panicked"}
       /\ initialization_params = <<>>
       /\ capabilities_call = <<>>
       /\ initialize_data = <<>>
       /\ sender = <<>>
       /\ init_result = "none"
       /\ lsp_loop_call = <<>>
       /\ ~Occurs("lsp_loop")

\* The parse of a payload without client capabilities has panicked.
C6_Witness ==
    /\ pc = "panicked"
    /\ raw_params # <<>>
    /\ DoesNotParse(Head(raw_params))

\* C7: the DisabledLanguageServices that disabled_services returns has one
\* entry per language service, each equal to the disable_* flag of that
\* service, and flipping one flag changes that service's entry and no other.
C7_TogglesMirrorFlags ==
    capabilities_call # <<>> =>
       LET d == Head(capabilities_call).disabled_services
       IN /\ DOMAIN d = FeatureKind
          /\ \A f \in FeatureKind : d[f] = args[FlagName[f]]
          /\ \A f \in FeatureKind :
                LET flipped == disabled_services(
                                  [args EXCEPT ![FlagName[f]] = ~@])
                IN \A g \in FeatureKind : (flipped[g] # d[g]) <=> (g = f)

\* disabled_services was applied to a configuration with some flags set and
\* some not.
C7_Witness ==
    /\ capabilities_call # <<>>
    /\ args.disable_rename
    /\ args.disable_semantic_tokens
    /\ ~args.disable_references
    /\ ~args.disable_definition

\* C8: in every initialize-result sent, a service without indexing dependency
\* is advertised iff its disable_* flag is not set, whatever the indexing mode.
C8_PlainFeaturesFollowToggles ==
    \A i \in DOMAIN sender :
       \A f \in FeatureKind \ IndexDependent :
          sender[i].result.capabilities[f] <=> ~args[FlagName[f]]

\* An initialize-result was sent under indexing mode None with hover disabled
\* and completion enabled.
C8_Witness ==
    /\ sender # <<>>
    /\ args.indexing_mode = "None"
    /\ args.disable_hover
    /\ ~args.disable_completion
    /\ ~Head(sender).result.capabilities["hover"]
    /\ Head(sender).result.capabilities["completion"]

\* C9: in every initialize-result sent, an index-dependent service is advertised
\* iff the indexing mode is not None and its disable_* flag is not set; under
\* mode None none of them is advertised.
C9_IndexFeaturesNeedIndexing ==
    \A i \in DOMAIN sender :
       \A f \in IndexDependent :
          sender[i].result.capabilities[f] <=>
             (args.indexing_mode # "None" /\ ~args[FlagName[f]])

\* An initialize-result was sent under indexing mode None with no index-dependent
\* service disabled by a flag.
C9_Witness ==
    /\ sender # <<>>
    /\ args.indexing_mode = "None"
    /\ \A f \in IndexDependent : ~args[FlagName[f]]
    /\ \A f \in IndexDependent : ~Head(sender).result.capabilities[f]

\* C10: every initialize-result sent has serverInfo.version equal to the
\* caller's version string, serverInfo.name equal to "pyrefly-lsp", and under
\* capabilities the document negotiated from the configuration and the parsed
\* client parameters.
C10_InitializeResultShape ==
    \A i \in DOMAIN sender :
       LET r == sender[i].result
       IN /\ DOMAIN r = {"capabilities", "serverInfo"}
          /\ DOMAIN r.serverInfo = {"name", "version"}
          /\ r.serverInfo.version = version_string
          /\ r.serverInfo.name = "pyrefly-lsp"
          /\ initialization_params # <<>>
          /\ r.capabilities =
                capabilities(args.indexing_mode, Head(initialization_params),
                             [f \in FeatureKind |-> args[FlagName[f]]])

\* An initialize-result was sent by a server started with version "9.9.9".
C10_Witness ==
    /\ sender # <<>>
    /\ version_string = "9.9.9"
    /\ Head(sender).result.serverInfo.version = "9.9.9"

\* C15: the effective indexing mode is one of the three modes, and without an
\* --indexing-mode flag it is LazyNonBlockingBackground, in LspArgs, in the
\* call of capabilities and in the call of lsp_loop.
C15_DefaultIndexingMode ==
    LET modes == {args.indexing_mode}
                 \cup {capabilities_call[i].indexing_mode :
                          i \in DOMAIN capabilities_call}
                 \cup {lsp_loop_call[i].indexing_mode :
                          i \in DOMAIN lsp_loop_call}
    IN /\ modes \subseteq
             {"None", "LazyNonBlockingBackground", "LazyBlocking"}
       /\ cli.indexing_mode = <<>> => modes = {"LazyNonBlockingBackground"}
       /\ cli.indexing_mode # <<>> => modes = {Head(cli.indexing_mode)}

\* The main loop was started by a server run without an --indexing-mode flag.
C15_Witness ==
    /\ cli.indexing_mode = <<>>
    /\ capabilities_call # <<>>
    /\ lsp_loop_call # <<>>

\* C16: without a --workspace-indexing-limit flag the limit is 0 in an fbcode
\* build and 2000 otherwise, whatever the indexing mode and the disable flags.
C16_DefaultIndexingLimit ==
    cli.workspace_indexing_limit = <<>> =>
       args.workspace_indexing_limit = IF cli.fbcode_build THEN 0 ELSE 2000

\* An fbcode build parsed a command line without a limit, with indexing mode
\* None and some disable flags.
C16_Witness ==
    /\ cli.workspace_indexing_limit = <<>>
    /\ cli.fbcode_build
    /\ args.workspace_indexing_limit = 0
    /\ args.indexing_mode = "None"
    /\ args.disable_hover
    /\ ~args.disable_rename

\* C17 (as stated): once the main loop has returned, run returns only if the
\* I/O threads have terminated.
C17_NoReturnWhileThreadsRun ==
    (pc = "returned" /\ lsp_loop_result # "none") => io_exited

\* C17 (amended): once the main loop has returned without error, run returns
\* (success or error) only if the I/O threads have terminated, and produces no
\* result while it waits in the join; once they have terminated, run
\* eventually returns.
C17_JoinBlocksUntilThreadsExit ==
    /\ []((pc = "returned" /\ lsp_loop_result = "Ok") => io_exited)
    /\ []((lsp_loop_result = "Ok" /\ pc # "returned") => run_result = "none")
    /\ ((lsp_loop_result = "Ok" /\ io_exited) ~> (pc = "returned"))

\* run waits in the join while the I/O threads are still running.
C17_Witness ==
    /\ pc = "join"
    /\ lsp_loop_result = "Ok"
    /\ ~io_exited
    /\ run_result = "none"

\* C18: the indexing mode, the disabled services and the client parameters
\* handed to the main loop are those the capability document was built from,
\* both are those of the command line, and the capability document that was
\* sent is the one of the configuration the loop runs with.
C18_LoopRunsWithAdvertisedConfiguration ==
    /\ args = LspArgs_parse(cli)
    /\ lsp_loop_call # <<>> =>
          /\ capabilities_call # <<>>
          /\ sender # <<>>
          /\ LET loop == Head(lsp_loop_call)
                 caps == Head(capabilities_call)
             IN /\ loop.indexing_mode = caps.indexing_mode
                /\ loop.disabled_services = caps.disabled_services
                /\ loop.initialization_params = caps.initialization_params
                /\ loop.indexing_mode = args.indexing_mode
                /\ loop.initialization_params = Head(initialization_params)
                /\ Head(sender).result.capabilities =
                      capabilities(loop.indexing_mode,
                                   loop.initialization_params,
                                   loop.disabled_services)

\* The main loop was started with a disabled service and indexing mode None.
C18_Witness ==
    /\ lsp_loop_call # <<>>
    /\ Head(lsp_loop_call).indexing_mode = "None"
    /\ Head(lsp_loop_call).disabled_services["completion"]

\* C19: when the handshake failed with a protocol error, run has returned that
\* error without joining the I/O threads; the join is reached only after
\* run_lsp returned Ok.
C19_NoJoinAfterHandshakeError ==
    /\ (pc = "returned" /\ init_result = "Err") =>
          /\ run_result = "Err"
          /\ join_result = "none"
          /\ io_threads = "running"
          /\ Count({"join_ok", "join_err", "lsp_loop"}) = 0
    /\ (pc = "join" \/ join_result # "none" \/ io_threads = "joined") =>
          run_lsp_result = "Ok"

\* run has returned after the receive of the initialize request failed.
C19_Witness ==
    /\ pc = "returned"
    /\ Occurs("initialize_start_err")
    /\ run_result = "Err"

\* The handshake completed: the connection is Ready.
Ready == Occurs("initialize_finish_ok")

\* C11: the handshake takes one initialize request of the connection and
\* answers it once.  An initialize request that arrives once the connection is
\* Ready is rejected by the main loop: it is not taken by a second handshake
\* and no initialize-result carries its id, so the connection never holds a
\* second initialize-result.
C11_SecondInitializeRejected ==
    /\ Len(received) <= 1
    /\ Len(sender) <= 1
    /\ Count({"initialize_finish_ok"}) <= 1
    /\ rejected # <<>> =>
          /\ Ready
          /\ Len(sender) = 1
          /\ Head(sender).id = Head(received).id
          /\ \A i \in DOMAIN rejected : rejected[i] # Head(sender).id

\* The main loop has rejected a second initialize request on a Ready
\* connection that holds the one initialize-result.
C11_Witness ==
    /\ Ready
    /\ rejected = <<2>>
    /\ Len(sender) = 1
    /\ Head(sender).id = 1

\* The configured indexing mode is LazyNonBlockingBackground.
BackgroundMode == args.indexing_mode = "LazyNonBlockingBackground"

\* The configured workspace indexing limit.
ConfiguredLimit == args.workspace_indexing_limit

\* C12: in LazyNonBlockingBackground mode the number of files scheduled never
\* exceeds the configured workspace indexing limit, which is the limit passed
\* to the main loop (none with limit 0); once the limit is reached no further
\* file is scheduled; a scheduled file is never taken back, and its indexing
\* completes.
C12_ScheduledWithinLimit ==
    /\ [](BackgroundMode =>
             /\ scheduled <= ConfiguredLimit
             /\ indexed <= scheduled
             /\ ConfiguredLimit = 0 => scheduled = 0
             /\ lsp_loop_call # <<>> => loop_limit = ConfiguredLimit)
    /\ [][BackgroundMode =>
             /\ scheduled >= ConfiguredLimit => scheduled' = scheduled
             /\ scheduled' >= scheduled
             /\ indexed' >= indexed]_vars
    /\ \A k \in 1..NumFiles :
          (BackgroundMode /\ scheduled >= k) ~> (indexed >= k)

\* The background worker has finished after scheduling as many files as the
\* limit, fewer than the project has, and indexing all of them.
C12_Witness ==
    /\ args.indexing_mode = "LazyNonBlockingBackground"
    /\ args.workspace_indexing_limit = SmallLimit
    /\ worker = "done"
    /\ scheduled = SmallLimit
    /\ indexed = SmallLimit
    /\ scheduled < NumFiles

\* C13: a background indexing worker exists only if the configured indexing
\* mode is LazyNonBlockingBackground and a file of a configured project has
\* been opened; in that mode indexing never runs on the main loop.
C13_WorkerOnlyInBackgroundModeAfterOpen ==
    /\ worker # "none" =>
          /\ args.indexing_mode = "LazyNonBlockingBackground"
          /\ opened
    /\ args.indexing_mode \in {"None", "LazyBlocking"} => worker = "none"
    /\ args.indexing_mode = "None" => scheduled = 0

\* The worker is running in LazyNonBlockingBackground mode, after the file was
\* opened, while the main loop has processed a request.
C13_Witness ==
    /\ args.indexing_mode = "LazyNonBlockingBackground"
    /\ opened
    /\ worker = "running"
    /\ handled > 0

\* C14: in LazyBlocking mode, from the opening of the project file until the
\* batch it triggered has completed, no step processes another request or
\* ends the main loop.
C14_BlockingBatchBlocksRequests ==
    [][(/\ args.indexing_mode = "LazyBlocking"
        /\ opened
        /\ batch # "done") =>
          /\ handled' = handled
          /\ rejected' = rejected
          /\ receiver' = receiver
          /\ pc' = pc]_vars

\* In LazyBlocking mode the batch has completed with files indexed, and the
\* main loop has processed every request of the client and rejected the second
\* initialize request.
C14_Witness ==
    /\ args.indexing_mode = "LazyBlocking"
    /\ batch = "done"
    /\ indexed > 0
    /\ handled = MaxRequests
    /\ rejected # <<>>

====
